---- MODULE Spec2Model ----
(***************************************************************************)
(* Model of geostatsmodels/utilities.py: pairwise distances, lag binning,  *)
(* the h-scattergram and lag-histogram drivers, and compass bearings.      *)
(*                                                                         *)
(* Numbers.  The program computes in float64.  Coordinates, measurements,  *)
(* lags, tolerances and distances are modelled in fixed point, Scale units *)
(* to 1.0.  Angles are modelled as binary floating point with MantBits     *)
(* significand bits (float64 carries 53; the width is reduced so that the  *)
(* values fit the model checker's integers), written as integer multiples  *)
(* of 2^-FracBits degree.  Every angle addition or subtraction rounds to   *)
(* nearest, ties to even, as IEEE 754 does.                                *)
(*                                                                         *)
(* Indices are 1-based here where Python's are 0-based.                    *)
(***************************************************************************)
EXTENDS Integers, Sequences, FiniteSets, TLC

VARIABLES p0, p1, fwd, back,
          data, given, lag, tol, lags, pwdist, indices, cv, sv, counts,
          groups, brgs, outcome, pc

bvars == <<p0, p1, fwd, back>>
dvars == <<data, given, lag, tol, lags, pwdist, indices, cv, sv, counts,
           groups, brgs, outcome, pc>>
vars == <<p0, p1, fwd, back,
          data, given, lag, tol, lags, pwdist, indices, cv, sv, counts,
          groups, brgs, outcome, pc>>

(***************************************************************************)
(* Bounds of the model.                                                    *)
(***************************************************************************)
\* coordinates of p0 and p1 range over -MaxCoord..MaxCoord (in units of 1.0)
MaxCoord == 2
\* a point set has 1..MaxPoints points
MaxPoints == 3
\* coordinates of a point set range over 0..MaxXY (in units of 1.0)
MaxXY == 1
\* measurements range over 1..MaxZ (in units of 1.0)
MaxZ == 2
\* lags range over 0, 0.5, ..., MaxLagHalves * 0.5
MaxLagHalves == 2

(***************************************************************************)
(* Number representation.                                                  *)
(***************************************************************************)
\* fixed-point unit of the float table built by readGeoEAS
Scale == 1000
\* significand width of the modelled floating-point angles
MantBits == 20
\* angles are integer multiples of 2^-FracBits degree
FracBits == 18

\* Python's None.  Python 2 orders None below every number, and so does
\* this value; no arithmetic is ever applied to it.
None == -2000000000

Abs(n) == IF n < 0 THEN -n ELSE n

RECURSIVE GCD(_, _)
GCD(a, b) == IF b = 0 THEN a ELSE GCD(b, a % b)

\* the literal n (degrees) as an angle
Deg(n) == n * 2^FracBits

\* spacing of the floating-point numbers around magnitude a
RECURSIVE Quantum(_, _)
Quantum(a, q) == IF a < q * 2^MantBits THEN q ELSE Quantum(a, 2 * q)

\* the exact result v rounded to the nearest floating-point number
RoundF(v) ==
    LET a  == Abs(v)
        q  == Quantum(a, 1)
        lo == a \div q
        r  == a - lo * q
        n  == IF 2 * r > q \/ (2 * r = q /\ lo % 2 = 1) THEN lo + 1 ELSE lo
    IN  IF v < 0 THEN -(n * q) ELSE n * q

FAdd(a, b) == RoundF(a + b)
FSub(a, b) == RoundF(a - b)

\* a coordinate far enough out that arctan of the slope rounds to the angle
\* next to 90 (with the 53 bits of float64: 2^52)
Far == 2^(MantBits - 1)

\* np.rad2deg(np.arctan(n / d)) for the reduced slopes n/d > 0 of the model,
\* correctly rounded
ArctanTable ==
       <<1, 1>> :> 11796480 @@ <<2, 1>> :> 16629088 @@ <<3, 1>> :> 18760352 @@
       <<4, 1>> :> 19913440 @@ <<5, 1>> :> 20628128 @@ <<6, 1>> :> 21112480 @@
       <<7, 1>> :> 21461696 @@ <<8, 1>> :> 21725184 @@ <<1, 2>> :> 6963872 @@
       <<3, 2>> :> 14761312 @@ <<5, 2>> :> 17877856 @@ <<7, 2>> :> 19412960 @@
       <<1, 3>> :> 4832608 @@ <<2, 3>> :> 8831648 @@ <<4, 3>> :> 13927744 @@
       <<5, 3>> :> 15476000 @@ <<7, 3>> :> 17511584 @@ <<8, 3>> :> 18204320 @@
       <<1, 4>> :> 3679516 @@ <<3, 4>> :> 9665216 @@ <<5, 4>> :> 13458528 @@
       <<7, 4>> :> 15795520 @@ <<1, 5>> :> 2964832 @@ <<2, 5>> :> 5715112 @@
       <<3, 5>> :> 8116960 @@ <<4, 5>> :> 10134432 @@ <<6, 5>> :> 13158176 @@
       <<7, 5>> :> 14276976 @@ <<8, 5>> :> 15202944 @@ <<1, 6>> :> 2480492 @@
       <<5, 6>> :> 10434784 @@ <<7, 6>> :> 12949568 @@ <<1, 7>> :> 2131256 @@
       <<2, 7>> :> 4179988 @@ <<3, 7>> :> 6081368 @@ <<4, 7>> :> 7797440 @@
       <<5, 7>> :> 9315984 @@ <<6, 7>> :> 10643392 @@ <<8, 7>> :> 12796320 @@
       <<1, 8>> :> 1867780 @@ <<3, 8>> :> 5388640 @@ <<5, 8>> :> 8390016 @@
       <<7, 8>> :> 10796640 @@ <<524288, 1>> :> 23592928 @@ <<1, 524288>> :> 29

\* line 160-161: deg = np.rad2deg( np.arctan( y / float( x ) ) ), x # 0.
\* arctan is odd and arctan(0) = 0 (as -0.0 when y = 0 and x < 0, which
\* compares equal to 0).
ArctanDeg(y, x) ==
    IF y = 0 THEN 0
    ELSE LET g == GCD(Abs(y), Abs(x))
             a == ArctanTable[<<Abs(y) \div g, Abs(x) \div g>>]
         IN  IF (y < 0) = (x < 0) THEN a ELSE -a

(***************************************************************************)
(* bearing( p0, p1 ), lines 150-182.                                       *)
(***************************************************************************)
\* lines 159-166
RawAngle(x, y) ==
    IF x # 0 THEN ArctanDeg(y, x)
    ELSE IF y > 0 THEN Deg(90)
    ELSE IF y < 0 THEN Deg(270)
    ELSE None

\* lines 167-172
QuadrantCorrection(x, y, deg) ==
    IF x < 0 /\ y > 0 THEN FAdd(Deg(180), deg)
    ELSE IF x < 0 /\ y < 0 THEN FSub(Deg(270), deg)
    ELSE IF x > 0 /\ y < 0 THEN FAdd(Deg(360), deg)
    ELSE deg

\* lines 174-181: which branch of the final conversion is taken (0: none)
ConversionBranch(deg) ==
    IF deg >= 0 /\ deg <= Deg(90) THEN 1
    ELSE IF deg >= Deg(90) /\ deg < Deg(180) THEN 2
    ELSE IF deg >= Deg(180) /\ deg < Deg(270) THEN 3
    ELSE IF deg >= Deg(270) /\ deg <= Deg(360) THEN 4
    ELSE 0

\* lines 173-182
Conversion(deg) ==
    LET b == ConversionBranch(deg)
    IN  IF b = 1 THEN FSub(Deg(90), deg)
        ELSE IF b \in {2, 3, 4} THEN FSub(Deg(90 + 360), deg)
        ELSE None

\* the raw angle after quadrant correction, lines 156-172
CorrectedAngle(a, b) ==
    LET y == b[2] - a[2]
        x == b[1] - a[1]
    IN  QuadrantCorrection(x, y, RawAngle(x, y))

bearing(a, b) == Conversion(CorrectedAngle(a, b))

(***************************************************************************)
(* bearings( data, indices ), lines 184-199.  indices is a list of lag     *)
(* groups, each a list of index pairs; data[ idx ] is the two rows named   *)
(* by the pair.                                                            *)
(***************************************************************************)
\* bearings with the two rows of each pair taken in the wrong order
bearings_Swapped(d, lagsets) ==
    [g \in 1..Len(lagsets) |->
        [k \in 1..Len(lagsets[g]) |->
            bearing(d[lagsets[g][k][2]], d[lagsets[g][k][1]])]]

bearings(d, lagsets) ==
    [g \in 1..Len(lagsets) |->
        [k \in 1..Len(lagsets[g]) |->
            bearing(d[lagsets[g][k][1]], d[lagsets[g][k][2]])]]

(***************************************************************************)
(* pairwise( data ), lines 45-56: squareform( pdist( data[:,:2] ) ).       *)
(***************************************************************************)
RECURSIVE SqrtSearch(_, _, _)
SqrtSearch(n, lo, hi) ==
    IF lo = hi THEN lo
    ELSE LET mid == (lo + hi + 1) \div 2
         IN  IF mid * mid <= n THEN SqrtSearch(n, mid, hi)
             ELSE SqrtSearch(n, lo, mid - 1)

\* square root, rounded to the nearest representable value
Sqrt(n) ==
    LET r == SqrtSearch(n, 0, IF n < 46340 THEN n ELSE 46340)
    IN  IF n - r * r > r THEN r + 1 ELSE r

RECURSIVE SumSq(_, _, _)
SumSq(u, v, c) ==
    IF c = 0 THEN 0 ELSE (u[c] - v[c]) * (u[c] - v[c]) + SumSq(u, v, c - 1)

\* Euclidean distance of two rows, over all their columns
euclidean(u, v) == Sqrt(SumSq(u, v, Len(u)))

\* the whole table passed on: data instead of data[:,:2]
FirstTwoColumns_All(d) == d

\* data[:,:2]
FirstTwoColumns(d) == [i \in 1..Len(d) |-> <<d[i][1], d[i][2]>>]

\* position of the pair i < j in the condensed distance vector of n rows
CondensedIndex(n, i, j) == (i - 1) * n - ((i - 1) * i) \div 2 + (j - i)

\* the pair at position k of the condensed distance vector of n rows, counted
\* from row i on
RECURSIVE CondensedPairFrom(_, _, _)
CondensedPairFrom(n, k, i) ==
    IF k <= n - i THEN <<i, i + k>> ELSE CondensedPairFrom(n, k - (n - i), i + 1)

CondensedPair(n, k) == CondensedPairFrom(n, k, 1)

\* scipy pdist: the distances of the rows i < j, condensed
pdist(X) ==
    LET n == Len(X)
    IN  [k \in 1..((n * (n - 1)) \div 2) |->
            euclidean(X[CondensedPair(n, k)[1]], X[CondensedPair(n, k)[2]])]

\* a square form that fills the upper triangle only
squareform_Upper(v) ==
    LET n == CHOOSE m \in 1..(Len(v) + 1) : (m * (m - 1)) \div 2 = Len(v)
    IN  [i \in 1..n |-> [j \in 1..n |->
            IF i < j THEN v[CondensedIndex(n, i, j)] ELSE 0]]

\* scipy squareform: the square, symmetric matrix of a condensed vector
squareform(v) ==
    LET n == CHOOSE m \in 1..(Len(v) + 1) : (m * (m - 1)) \div 2 = Len(v)
    IN  [i \in 1..n |-> [j \in 1..n |->
            IF i = j THEN 0
            ELSE IF i < j THEN v[CondensedIndex(n, i, j)]
            ELSE v[CondensedIndex(n, j, i)]]]

pairwise(d) == squareform(pdist(FirstTwoColumns(d)))

(***************************************************************************)
(* variograms.lagindices, variograms.covariance, variograms.semivariance:  *)
(* the module variograms is imported on line 8.                            *)
(***************************************************************************)
\* the entries of a matrix of R rows and C columns, row by row
Entries(m) ==
    LET C == Len(m[1])
    IN  [k \in 1..(Len(m) * C) |-> <<((k - 1) \div C) + 1, ((k - 1) % C) + 1>>]

\* a band that leaves out its upper bound
InBand_HalfOpen(d, l, t) == l - t <= d /\ d < l + t

InBand(d, l, t) == l - t <= d /\ d <= l + t

\* the entries of m within the band, row by row
Scan(m, l, t) ==
    LET Hit(p) == InBand(m[p[1]][p[2]], l, t)
    IN  SelectSeq(Entries(m), Hit)

\* (the set constructor binds m to the value of the matrix, computed once)
lagindices(matrix, l, t) ==
    CHOOSE r \in {Scan(m, l, t) : m \in {matrix}} : TRUE

\* data[ indices[:,0], 2 ] and data[ indices[:,1], 2 ], at pair k
head(d, ind, k) == d[ind[k][1]][3]
tail(d, ind, k) == d[ind[k][2]][3]

\* sums over the first k pairs
RECURSIVE SumHead(_, _, _)
SumHead(d, ind, k) ==
    IF k = 0 THEN 0 ELSE head(d, ind, k) + SumHead(d, ind, k - 1)

RECURSIVE SumTail(_, _, _)
SumTail(d, ind, k) ==
    IF k = 0 THEN 0 ELSE tail(d, ind, k) + SumTail(d, ind, k - 1)

RECURSIVE SumProduct(_, _, _)
SumProduct(d, ind, k) ==
    IF k = 0 THEN 0
    ELSE head(d, ind, k) * tail(d, ind, k) + SumProduct(d, ind, k - 1)

RECURSIVE SumSquaredDifference(_, _, _)
SumSquaredDifference(d, ind, k) ==
    IF k = 0 THEN 0
    ELSE (head(d, ind, k) - tail(d, ind, k)) * (head(d, ind, k) - tail(d, ind, k))
             + SumSquaredDifference(d, ind, k - 1)

\* a result or a raised error; a value is the fraction num / den
Value(n, d) == [err |-> "none", num |-> n, den |-> d]
Raised(e) == [err |-> e, num |-> 0, den |-> 1]

\* a covariance that divides by the number of pairs unguarded: 0/0 when empty
covariance_Unguarded(d, ind) ==
    LET n == Len(ind)
    IN  Value(n * SumProduct(d, ind, n) - SumHead(d, ind, n) * SumTail(d, ind, n),
              n * n)

\* sum(head * tail) / n - mean(head) * mean(tail)
covariance(d, ind) ==
    LET n == Len(ind)
    IN  IF n = 0 THEN Raised("EmptyInputError")
        ELSE Value(n * SumProduct(d, ind, n)
                     - SumHead(d, ind, n) * SumTail(d, ind, n), n * n)

\* sum((head - tail)^2) / (2 n)
semivariance(d, ind) ==
    LET n == Len(ind)
    IN  IF n = 0 THEN Raised("EmptyInputError")
        ELSE Value(SumSquaredDifference(d, ind, n), 2 * n)

(***************************************************************************)
(* Inputs.                                                                 *)
(***************************************************************************)
Grid == {<<x * Scale, y * Scale>> : x \in -MaxCoord..MaxCoord, y \in -MaxCoord..MaxCoord}

\* points whose slope from the origin is Far or 1/Far, in every quadrant
FarPoints ==
    {<<sx * Scale, sy * Far * Scale>> : sx \in {-1, 1}, sy \in {-1, 1}}
    \cup {<<sx * Far * Scale, sy * Scale>> : sx \in {-1, 1}, sy \in {-1, 1}}

Positions == {<<x * Scale, y * Scale>> : x \in 0..MaxXY, y \in 0..MaxXY}

\* the measurements of a point set
Measurements == {z * Scale : z \in 1..MaxZ}

\* point sets of 1..MaxPoints rows x, y, z: any positions, the measurements
\* running through 1.0, 2.0, ..., MaxZ and over again
PointSets ==
    UNION {{[i \in 1..n |-> <<xy[i][1], xy[i][2], (((i - 1) % MaxZ) + 1) * Scale>>] :
                xy \in [1..n -> Positions]} :
           n \in 1..MaxPoints}

Half == Scale \div 2

Lags == {k * Half : k \in 0..MaxLagHalves}

\* an exact match, and half a unit either way
Tolerances == {0, Half}

\* two lags a half apart
LagSeqs == {<<l, l + Half>> : l \in Lags}

NoMatrix == <<>>
NoValue == Raised("unset")

(***************************************************************************)
(* Calls of bearing on two points.                                         *)
(***************************************************************************)
DataIdle ==
    /\ data = <<>> /\ given = FALSE /\ lag = 0 /\ tol = 0 /\ lags = <<>>
    /\ pwdist = NoMatrix /\ indices = <<>> /\ cv = NoValue /\ sv = NoValue
    /\ counts = <<>> /\ groups = <<>> /\ brgs = <<>>

InitBearing ==
    /\ p0 \in Grid /\ p1 \in Grid
    /\ fwd = None /\ back = None
    /\ outcome = "none" /\ pc = "idle"
    /\ DataIdle

\* the grid, and the far points seen from the origin
InitBearingFar ==
    /\ \/ p0 \in Grid /\ p1 \in Grid
       \/ p0 = <<0, 0>> /\ p1 \in FarPoints
    /\ fwd = None /\ back = None
    /\ outcome = "none" /\ pc = "idle"
    /\ DataIdle

\* bearing( p0, p1 ): the function has no raise statement
BearingForward ==
    /\ pc = "idle"
    /\ fwd' = bearing(p0, p1)
    /\ outcome' = "returned"
    /\ pc' = "forward"
    /\ UNCHANGED <<p0, p1, back, data, given, lag, tol, lags, pwdist, indices,
                   cv, sv, counts, groups, brgs>>

\* bearing( p1, p0 )
BearingBackward ==
    /\ pc = "forward"
    /\ back' = bearing(p1, p0)
    /\ outcome' = "returned"
    /\ pc' = "round trip"
    /\ UNCHANGED <<p0, p1, fwd, data, given, lag, tol, lags, pwdist, indices,
                   cv, sv, counts, groups, brgs>>

NextBearing == BearingForward \/ BearingBackward

SpecBearing == InitBearing /\ [][NextBearing]_vars

SpecBearingFar == InitBearingFar /\ [][NextBearing]_vars

(***************************************************************************)
(* Calls on a point set.                                                   *)
(***************************************************************************)
Init ==
    /\ p0 = <<0, 0>> /\ p1 = <<0, 0>> /\ fwd = None /\ back = None
    /\ data \in PointSets
    /\ given = FALSE /\ lag = 0 /\ tol = 0 /\ lags = <<>>
    /\ pwdist = NoMatrix /\ indices = <<>> /\ cv = NoValue /\ sv = NoValue
    /\ counts = <<>> /\ groups = <<>> /\ brgs = <<>>
    /\ outcome = "none" /\ pc = "idle"

\* the caller computes the distance matrix, to pass it on later
Pairwise ==
    /\ pc = "idle" /\ pwdist = NoMatrix
    /\ pwdist' = pairwise(data)
    /\ UNCHANGED <<bvars, data, given, lag, tol, lags, indices, cv, sv,
                   counts, groups, brgs, outcome, pc>>

\* variograms.lagindices( pwdist, l, t )
LagIndices(l, t) ==
    /\ pc = "idle" /\ pwdist # NoMatrix
    /\ lag' = l /\ tol' = t
    /\ indices' = lagindices(pwdist, l, t)
    /\ outcome' = "returned"
    /\ pc' = "binned"
    /\ UNCHANGED <<bvars, data, given, lags, pwdist, cv, sv, counts, groups, brgs>>

\* variograms.covariance and variograms.semivariance on the binned pairs
Statistics ==
    /\ pc = "binned"
    /\ LET c == covariance(data, indices)
           s == semivariance(data, indices)
       IN  IF c.err # "none"
           THEN outcome' = c.err /\ UNCHANGED <<cv, sv>>
           ELSE IF s.err # "none"
           THEN outcome' = s.err /\ cv' = c /\ UNCHANGED sv
           ELSE outcome' = "returned" /\ cv' = c /\ sv' = s
    /\ pc' = "done"
    /\ UNCHANGED <<bvars, data, given, lag, tol, lags, pwdist, indices,
                   counts, groups, brgs>>

\* the index pairs hscattergram selects, lines 70-75
hscattergramIndices(d, l, t, g, pw) ==
    IF ~g THEN lagindices(pairwise(d), l, t)
    ELSE lagindices(d, l, t)

\* hscattergram( data, l, t, pwdist ), lines 58-96; g: pwdist is passed
Hscattergram(l, t, g) ==
    /\ pc = "idle"
    /\ g => pwdist # NoMatrix
    /\ given' = g /\ lag' = l /\ tol' = t
    /\ \E ind \in {hscattergramIndices(data, l, t, g, pwdist)} :
       LET \* lines 77-78: data[ indices[:,0], 2 ], data[ indices[:,1], 2 ]
           inRange == \A k \in 1..Len(ind) :
                          ind[k][1] <= Len(data) /\ ind[k][2] <= Len(data)
           c == covariance(data, ind)
           s == semivariance(data, ind)
       IN  /\ indices' = ind
           /\ IF ~inRange
              THEN outcome' = "IndexError" /\ UNCHANGED <<cv, sv>>
              ELSE IF c.err # "none"
              THEN outcome' = c.err /\ UNCHANGED <<cv, sv>>
              \* line 91: the covariance is computed and annotated first
              ELSE IF s.err # "none"
              THEN outcome' = s.err /\ cv' = c /\ UNCHANGED sv
              ELSE outcome' = "shown" /\ cv' = c /\ sv' = s
    /\ pc' = "hscattergram"
    /\ UNCHANGED <<bvars, data, lags, pwdist, counts, groups, brgs>>

\* the pair counts of laghistogram, lines 110-116
laghistogramCounts(d, ls, t, g, pw) ==
    LET m == IF ~g THEN pairwise(FirstTwoColumns(d)) ELSE pw
    IN  [k \in 1..Len(ls) |-> Len(lagindices(m, ls[k], t))]

\* laghistogram( data, ls, t, pwdist ), lines 98-123; g: pwdist is passed
Laghistogram(ls, t, g) ==
    /\ pc = "idle"
    /\ g => pwdist # NoMatrix
    /\ given' = g /\ lags' = ls /\ tol' = t
    /\ counts' = laghistogramCounts(data, ls, t, g, pwdist)
    /\ outcome' = "shown"
    /\ pc' = "laghistogram"
    /\ UNCHANGED <<bvars, data, lag, pwdist, indices, cv, sv, groups, brgs>>

\* bearings( data, [ lagindices( pwdist, l, t ) for l in ls ] )
Bearings(ls, t) ==
    /\ pc = "idle" /\ pwdist # NoMatrix
    /\ lags' = ls /\ tol' = t
    /\ groups' = [k \in 1..Len(ls) |-> lagindices(pwdist, ls[k], t)]
    /\ brgs' = bearings(data, groups')
    /\ outcome' = "returned"
    /\ pc' = "bearings"
    /\ UNCHANGED <<bvars, data, given, lag, pwdist, indices, cv, sv, counts>>

Next ==
    \/ Pairwise
    \/ \E l \in Lags, t \in Tolerances : LagIndices(l, t)
    \/ Statistics
    \/ \E l \in Lags, t \in Tolerances, g \in BOOLEAN : Hscattergram(l, t, g)
    \/ \E ls \in LagSeqs, t \in Tolerances, g \in BOOLEAN : Laghistogram(ls, t, g)
    \/ \E ls \in LagSeqs, t \in Tolerances : Bearings(ls, t)

Spec == Init /\ [][Next]_vars

(***************************************************************************)
(* Properties.                                                             *)
(***************************************************************************)
Range(f) == {f[k] : k \in DOMAIN f}

Coincident(a, b) == a[1] = b[1] /\ a[2] = b[2]

\* C1: for non-coincident p0 and p1, bearing(p0,p1) and bearing(p1,p0)
\* differ by exactly 180 degrees modulo 360, in every quadrant.
C1_RoundTrip ==
    (pc = "round trip" /\ ~Coincident(p0, p1))
        => (fwd - back) % Deg(360) = Deg(180)

\* C2: bearing(p0,p1) is 0, 90, 180, 270 when p1 is due north, east, south,
\* west of p0.
C2_Cardinal ==
    pc # "idle" =>
        /\ (p1[1] = p0[1] /\ p1[2] > p0[2]) => fwd = Deg(0)
        /\ (p1[1] > p0[1] /\ p1[2] = p0[2]) => fwd = Deg(90)
        /\ (p1[1] = p0[1] /\ p1[2] < p0[2]) => fwd = Deg(180)
        /\ (p1[1] < p0[1] /\ p1[2] = p0[2]) => fwd = Deg(270)

\* C5: for non-coincident p0 and p1, a branch of the final conversion is
\* taken and bearing(p0,p1) is a number b with 0 <= b < 360.
C5_Range ==
    (pc # "idle" /\ ~Coincident(p0, p1)) =>
        /\ ConversionBranch(CorrectedAngle(p0, p1)) \in 1..4
        /\ fwd # None
        /\ 0 <= fwd /\ fwd < Deg(360)

\* C6: bearing of two coincident points fails with DegenerateBearingError
\* and returns neither a bearing nor an empty value.
C6_Degenerate ==
    (pc # "idle" /\ Coincident(p0, p1)) =>
        outcome = "DegenerateBearingError"

\* C3: a pair (i,j) is in the result of lag_indices if and only if
\* lag - tolerance <= d(i,j) <= lag + tolerance, both bounds inclusive.
C3_LagBand ==
    pc = "binned" =>
        /\ \A p \in Range(indices) :
              p[1] \in 1..Len(pwdist) /\ p[2] \in 1..Len(pwdist)
        /\ \A i, j \in 1..Len(pwdist) :
              (<<i, j>> \in Range(indices))
                  <=> (lag - tol <= pwdist[i][j] /\ pwdist[i][j] <= lag + tol)

\* C3 witness: a band whose upper bound is met exactly by a returned pair,
\* with another entry of the matrix left out.
C3_Witness ==
    /\ pc = "binned"
    /\ \E i, j \in 1..Len(pwdist) :
          pwdist[i][j] = lag + tol /\ i # j /\ <<i, j>> \in Range(indices)
    /\ \E i, j \in 1..Len(pwdist) : <<i, j>> \notin Range(indices)

Remeasured(i, z) ==
    [k \in 1..Len(data) |->
        <<data[k][1], data[k][2], IF k = i THEN z ELSE data[k][3]>>]

\* the point set with an extra column, which holds e at point i
Extended(i, e) ==
    [k \in 1..Len(data) |->
        <<data[k][1], data[k][2], data[k][3], IF k = i THEN e ELSE 0>>]

\* C4: the matrix of pairwise is N x N, symmetric, non-negative, zero on the
\* diagonal, and depends only on the first two columns of each point.
C4_Matrix ==
    (pc = "idle" /\ pwdist # NoMatrix) =>
        /\ Len(pwdist) = Len(data)
        /\ \A i \in 1..Len(data) : Len(pwdist[i]) = Len(data)
        /\ \A i, j \in 1..Len(data) :
              /\ pwdist[i][j] = pwdist[j][i]
              /\ pwdist[i][j] >= 0
              /\ pwdist[i][i] = 0
        /\ \A i \in 1..Len(data) :
              \A z \in Measurements \cup {0} :
                  /\ pairwise(Remeasured(i, z)) = pwdist
                  /\ pairwise(Extended(i, z)) = pwdist

\* C4 witness: a matrix of points apart from each other with different
\* measurements.
C4_Witness ==
    /\ pc = "idle" /\ pwdist # NoMatrix
    /\ \E i, j \in 1..Len(data) : pwdist[i][j] > 0 /\ data[i][3] # data[j][3]

C8_Groups ==
    pc = "bearings" =>
        /\ Len(brgs) = Len(groups)
        /\ \A g \in 1..Len(groups) :
              /\ Len(brgs[g]) = Len(groups[g])
              /\ \A k \in 1..Len(groups[g]) :
                    brgs[g][k] = bearing(
                                     data[groups[g][k][1]], data[groups[g][k][2]])

\* C8 witness: two groups of different sizes, one with a pair of two points.
C8_Witness ==
    /\ pc = "bearings"
    /\ Len(groups) = 2
    /\ Len(groups[1]) # Len(groups[2])
    /\ \E k \in 1..Len(groups[2]) :
          /\ groups[2][k][1] # groups[2][k][2]
          /\ brgs[2][k] # None

\* C10: hscattergram selects its index pairs from the pairwise distance
\* matrix of the data, whether pwdist is supplied or omitted.
C10_SameSelection ==
    pc = "hscattergram" => indices = lagindices(pairwise(data), lag, tol)

====
